---- MODULE Spec2Model ----
(***************************************************************************)
(* Model of the desplega.ai GitHub action (src/unnamed/part_001, the       *)
(* revision of main.ts with the version probe and the retrying trigger).   *)
(*                                                                         *)
(* run() is one asynchronous task.  Every action below is the code that    *)
(* runs between two suspension points (an awaited HTTP response, an        *)
(* awaited stream read, a backoff sleep).  Everything the task does to its *)
(* collaborators (fetch, sleep, core.info, core.warning, core.setOutput,   *)
(* core.setFailed, the stream reader, the abort controller) is appended to *)
(* `log` in program order (core.debug lines are left out).                 *)
(*                                                                         *)
(* Texts are sequences of words (strings); JSON texts are sequences of     *)
(* tokens "{" key value ... "}" whose values are JSON strings.             *)
(*                                                                         *)
(* The three steps of run() share no state, so each behaviour lets one     *)
(* collaborator misbehave (`scenario`: the version endpoint, the trigger   *)
(* endpoint with the maxRetries input, or the event stream with its        *)
(* reader) while the other two answer as in the happy path.                *)
(*                                                                         *)
(* src/src/main.ts is the earlier revision of the same file (no version    *)
(* probe, no retry, statuses passed/failed/error only); it is not the      *)
(* program modelled here.                                                  *)
(***************************************************************************)
EXTENDS Integers, Sequences, FiniteSets, TLC

VARIABLES
    scenario,        \* which collaborator misbehaves in this run
    pc,              \* the suspension point run() is waiting at
    maxRetriesInput, \* raw text of the maxRetries input
    maxRetries,      \* parseNumber(core.getInput('maxRetries'))
    attempt,         \* retryWithBackoff: loop variable of the current call
    versionResp,     \* responses the version endpoint has given so far
    triggerResp,     \* responses the trigger endpoint has given so far
    sseResp,         \* the response of the event-stream request, once given
    reads,           \* number of chunks the event stream has delivered
    delivered,       \* the chunks the event stream has delivered, in order
    buffer,          \* connectToSSE: the accumulation buffer
    readError,       \* the error a rejected read raised (NoErr while none has)
    ending,          \* how the read loop was left: "" while it has not been,
                     \* "return", "eof", "abort" or "error"
    log              \* calls made to the collaborators, in order

vars == <<scenario, pc, maxRetriesInput, maxRetries, attempt, versionResp,
          triggerResp, sseResp, reads, delivered, buffer, ending, readError,
          log>>

(***************************************************************************)
(* Bounds of the model.                                                    *)
(***************************************************************************)
MaxRetriesBound == 2    \* largest maxRetries offered as input
MaxReads == 2           \* chunks a stream delivers before it ends or fails

(***************************************************************************)
(* Generic helpers.                                                        *)
(***************************************************************************)
Range(s) == {s[i] : i \in 1..Len(s)}

RECURSIVE Pow2(_)
Pow2(n) == IF n <= 0 THEN 1 ELSE 2 * Pow2(n - 1)

Last(s) == s[Len(s)]

\* String.prototype.includes(word) on a text
Includes(text, word) == \E i \in 1..Len(text) : text[i] = word

\* the entries of the log made by one kind of call
RECURSIVE SelectOp(_, _)
SelectOp(l, op) ==
    IF l = <<>> THEN <<>>
    ELSE IF Head(l).op = op THEN <<Head(l)>> \o SelectOp(Tail(l), op)
    ELSE SelectOp(Tail(l), op)

\* one call: its kind, a name, a text and a number (unused fields are empty)
Entry(op, a, b, n) == [op |-> op, a |-> a, b |-> b, n |-> n]
Fetch(url) == Entry("fetch", url, <<>>, 0)
Info(what, n) == Entry("info", what, <<>>, n)
Warning(what, text) == Entry("warning", what, text, 0)
SetOutput(name, value) == Entry("setOutput", name, <<value>>, 0)
SetFailed(message) == Entry("setFailed", "", message, 0)
SleepCall(ms) == Entry("sleep", "", <<>>, ms)

(***************************************************************************)
(* parseNumber (part_001:30-33) over texts given as character sequences.   *)
(***************************************************************************)
DigitChars == <<"0", "1", "2", "3", "4", "5", "6", "7", "8", "9">>

IsDigit(c) == \E i \in 1..10 : DigitChars[i] = c

DigitVal(c) == (CHOOSE i \in 1..10 : DigitChars[i] = c) - 1

\* the longest prefix of s made of digits
RECURSIVE DigitsPrefix(_)
DigitsPrefix(s) ==
    IF s = <<>> \/ ~IsDigit(Head(s)) THEN <<>>
    ELSE <<Head(s)>> \o DigitsPrefix(Tail(s))

RECURSIVE DecimalValue(_)
DecimalValue(ds) ==
    IF ds = <<>> THEN 0
    ELSE 10 * DecimalValue(SubSeq(ds, 1, Len(ds) - 1)) + DigitVal(Last(ds))

\* parseInt(input, 10): optional sign, then the leading digits; NaN without digits
parseInt(input) ==
    LET signed == input # <<>> /\ Head(input) \in {"-", "+"}
        rest   == IF signed THEN Tail(input) ELSE input
        ds     == DigitsPrefix(rest)
    IN  IF ds = <<>> THEN [isNaN |-> TRUE, val |-> 0]
        ELSE [isNaN |-> FALSE,
              val   |-> IF signed /\ Head(input) = "-"
                        THEN 0 - DecimalValue(ds) ELSE DecimalValue(ds)]

\* variant: an unreadable number falls back to one retry
parseNumberDefaultOne(input) ==
    LET num == parseInt(input) IN IF num.isNaN THEN 1 ELSE num.val

parseNumber(input) ==
    LET num == parseInt(input) IN IF num.isNaN THEN 0 ELSE num.val

(***************************************************************************)
(* JSON.parse over token sequences, and property reads on the result.      *)
(***************************************************************************)
RECURSIVE PairsToObject(_)
PairsToObject(toks) ==
    IF Len(toks) < 2 THEN << >>
    ELSE LET rest == PairsToObject(SubSeq(toks, 3, Len(toks)))
             k    == toks[1]
         IN  [x \in (DOMAIN rest) \cup {k} |->
                 IF x \in DOMAIN rest THEN rest[x] ELSE toks[2]]

\* kind "object" with its fields, kind "null", or kind "throws" (SyntaxError)
JSONparse(toks) ==
    IF toks = <<"null">> THEN [kind |-> "null", obj |-> << >>]
    ELSE IF Len(toks) >= 2 /\ toks[1] = "{" /\ Last(toks) = "}"
            /\ (Len(toks) - 2) % 2 = 0
         THEN [kind |-> "object",
               obj  |-> PairsToObject(SubSeq(toks, 2, Len(toks) - 1))]
         ELSE [kind |-> "throws", obj |-> << >>]

\* obj.key: the string, or undefined when the key is absent
Undefined == [undef |-> TRUE]
Str(s) == [str |-> s]
Get(obj, key) == IF key \in DOMAIN obj THEN Str(obj[key]) ELSE Undefined
IsStr(v) == "str" \in DOMAIN v
\* JavaScript truthiness of a string-or-undefined value
Truthy(v) == IsStr(v) /\ v.str # ""

(***************************************************************************)
(* Errors: name, message text, and whether the value is an Error at all.   *)
(***************************************************************************)
Err(name, message) == [isError |-> TRUE, name |-> name, message |-> message]
NonError == [isError |-> FALSE, name |-> "", message |-> <<>>]
NoErr == [isError |-> FALSE, name |-> "none", message |-> <<>>]

\* fetch() rejecting without a response (Node: TypeError "fetch failed")
FetchFailed == Err("TypeError", <<"fetch", "failed">>)
\* Response.json() on a body that is not JSON
JsonSyntaxError == Err("SyntaxError", <<"Unexpected", "token">>)
\* reading a property of null
NullTypeError == Err("TypeError", <<"Cannot", "read", "properties", "of", "null">>)

(***************************************************************************)
(* HTTP responses as the environment produces them.                        *)
(***************************************************************************)
Response(status, text, json) ==
    [net |-> FALSE, status |-> status, text |-> text, json |-> json]
\* no response at all: fetch() rejects
NetworkFailure == [net |-> TRUE, status |-> 0, text |-> <<>>, json |-> <<>>]
\* Response.ok
Ok(r) == r.status >= 200 /\ r.status <= 299

VersionResponses ==
    IF scenario = "version"
    THEN { NetworkFailure,
           Response(500, <<"down">>, <<>>),
           Response(200, <<>>, <<"{", "version", "1337", "}">>),
           Response(200, <<>>, <<"{", "}">>),
           Response(200, <<>>, <<"null">>),
           Response(200, <<>>, <<"<html>">>) }
    ELSE { Response(200, <<>>, <<"{", "version", "1337", "}">>) }

TriggerStatuses == {401, 499, 500, 599}
TriggerBodies == { <<"Unavailable">>, <<"cannot", "fetch", "user">> }
GoodTrigger == Response(200, <<>>, <<"{", "run_id", "r1", "}">>)

TriggerResponses ==
    IF scenario = "trigger"
    THEN { NetworkFailure, GoodTrigger,
           Response(200, <<>>, <<"{", "run_id", "", "}">>),
           Response(200, <<>>, <<"{", "}">>),
           Response(200, <<>>, <<"null">>),
           Response(200, <<>>, <<"<html>">>) }
         \cup { Response(s, b, <<>>) : s \in TriggerStatuses, b \in TriggerBodies }
    ELSE { GoodTrigger }

MaxRetriesInputs ==
    IF scenario = "trigger"
    THEN { <<>>, <<"a">>, <<"-", "1">>, <<DigitChars[MaxRetriesBound + 1], "x">> }
         \cup { <<DigitChars[n + 1]>> : n \in 0..MaxRetriesBound }
    ELSE { <<>> }

(***************************************************************************)
(* retryWithBackoff (part_001:50-76): what follows a failed attempt.       *)
(***************************************************************************)
\* variant: the last attempt is recognised one attempt late
RethrowsOneLate(att, maxR, retryable) == att = maxR + 1 \/ ~retryable

\* variant: the predicate is not consulted
RethrowsOnlyLast(att, maxR, retryable) == att = maxR

\* line 64: the failure is rethrown at once
Rethrows(att, maxR, retryable) == att = maxR \/ ~retryable

\* variant: the exponent counts attempts from 1
BackoffDelayOneBased(att) == Pow2(att + 1) * 1000

\* line 69: milliseconds slept after failed attempt att
BackoffDelay(att) == Pow2(att) * 1000

\* lines 70-71: the retry log and the sleep
RetryCalls(att) == <<Info("retrying", att + 1), SleepCall(BackoffDelay(att))>>

(***************************************************************************)
(* Version probe (part_001:230-254).                                       *)
(***************************************************************************)
VersionRetries == 3

\* fetchVersion: the version string, or the error it throws
fetchVersion(r) ==
    IF r.net THEN [ok |-> FALSE, value |-> "", error |-> FetchFailed]
    ELSE IF ~Ok(r)
    THEN [ok |-> FALSE, value |-> "",
          error |-> Err("Error", <<"Version endpoint returned", ToString(r.status)>>)]
    ELSE LET data == JSONparse(r.json)
         IN  IF data.kind = "throws"
             THEN [ok |-> FALSE, value |-> "", error |-> JsonSyntaxError]
             ELSE \* data?.version ?? 'unknown'
                  LET v == IF data.kind = "null" THEN Undefined
                           ELSE Get(data.obj, "version")
                  IN  [ok |-> TRUE, value |-> IF IsStr(v) THEN v.str ELSE "unknown",
                       error |-> NoErr]

\* variant: only a request that got no response is tried again
VersionRetryableNetworkOnly(error) == error.isError /\ Includes(error.message, "fetch")

\* line 245: () => true
VersionRetryable(error) == TRUE

\* variant: the catch around the probe signals a failure
VersionWarningAsFailure(error) ==
    SetFailed(<<"Failed to fetch version after retries:">>
              \o (IF error.isError THEN error.message ELSE <<"unknown error">>))

\* lines 250-254: the catch around the probe
VersionWarning(error) ==
    Warning("Failed to fetch version after retries:",
            IF error.isError THEN error.message ELSE <<"unknown error">>)

\* lines 256-291: the trigger request is issued
IssueTrigger == <<Info("Triggering test suite execution...", 0), Fetch("trigger")>>

(***************************************************************************)
(* Trigger (part_001:263-315).                                             *)
(***************************************************************************)
TriggerPrefix == "Failed to trigger action:"

\* a word matched by \d+
IsNumberWord(w) == \E n \in 0..999 : ToString(n) = w
NumberOfWord(w) == CHOOSE n \in 0..999 : ToString(n) = w

\* error.message.match(/Failed to trigger action: (\d+)/): first match
StatusMatch(message) ==
    LET hits == { i \in 1..(Len(message) - 1) :
                    message[i] = TriggerPrefix /\ IsNumberWord(message[i + 1]) }
    IN  IF hits = {} THEN [matched |-> FALSE, status |-> 0]
        ELSE [matched |-> TRUE,
              status  |-> NumberOfWord(message[(CHOOSE i \in hits :
                                                  \A j \in hits : i <= j) + 1])]

\* variant: status 500 itself is not taken as a server error
shouldRetryAbove500(error) ==
    IF error.isError
    THEN IF Includes(error.message, "fetch") THEN TRUE
         ELSE LET m == StatusMatch(error.message)
              IN  IF m.matched THEN m.status > 500 /\ m.status < 600 ELSE FALSE
    ELSE FALSE

\* variant: only the status in the message is looked at
shouldRetryStatusOnly(error) ==
    IF error.isError
    THEN LET m == StatusMatch(error.message)
         IN  IF m.matched THEN m.status >= 500 /\ m.status < 600 ELSE FALSE
    ELSE FALSE

shouldRetry(error) ==
    IF error.isError
    THEN IF Includes(error.message, "fetch") THEN TRUE
         ELSE LET m == StatusMatch(error.message)
              IN  IF m.matched THEN m.status >= 500 /\ m.status < 600 ELSE FALSE
    ELSE FALSE

\* lines 295-297
TriggerError(r) ==
    Err("Error", <<TriggerPrefix, ToString(r.status)>> \o r.text)

\* triggerAction: the decoded body, or the error it throws
triggerAction(r) ==
    IF r.net THEN [ok |-> FALSE, data |-> JSONparse(<<>>), error |-> FetchFailed]
    ELSE IF ~Ok(r)
    THEN [ok |-> FALSE, data |-> JSONparse(<<>>), error |-> TriggerError(r)]
    ELSE LET data == JSONparse(r.json)
         IN  IF data.kind = "throws"
             THEN [ok |-> FALSE, data |-> data, error |-> JsonSyntaxError]
             ELSE [ok |-> TRUE, data |-> data, error |-> NoErr]

\* lines 326-330: the catch of run()
RunCatch(error) ==
    IF error.isError THEN SetFailed(error.message)
    ELSE SetFailed(<<"An unknown error occurred">>)

\* variant: the run id is not checked for being empty or absent
RunIdErrorNullOnly(data) ==
    IF data.kind = "null" THEN NullTypeError ELSE NoErr

\* lines 308-312: the error thrown after a decoded trigger body, if any
RunIdError(data) ==
    IF data.kind = "null" THEN NullTypeError
    ELSE IF ~Truthy(Get(data.obj, "run_id"))
    THEN Err("Error", <<"No run ID received from the trigger endpoint">>)
    ELSE NoErr

\* lines 305-307: does this failure of triggerAction end the trigger step
TriggerGivesUp(error) ==
    IF maxRetries > 0 THEN Rethrows(attempt, maxRetries, shouldRetry(error))
    ELSE TRUE

(***************************************************************************)
(* Event stream: chunks are texts given as sequences of lines; a line has  *)
(* a recognised prefix ("data:", "event:", another one, or none) and the   *)
(* trimmed text after it.                                                  *)
(***************************************************************************)
TextLine(field, text) == [field |-> field, text |-> text]
EmptyLine == TextLine("", <<>>)
EventLine(label) == TextLine("event:", <<label>>)
DataLine(toks) == TextLine("data:", toks)
IdLine == TextLine("id:", <<"22048943">>)

SuiteEvent == "test_suite_run.event"
Payload(status) == <<"{", "status", status, "}">>
PayloadTs(status, ts) == <<"{", "status", status, "elapsed", "4.6", "ts", ts, "}">>
\* a payload without a status field
PayloadNoStatus(ts) == <<"{", "elapsed", "4.6", "ts", ts, "}">>
GoodTs == "2025-05-21T21:45:37.774642"
BadTs == "not-a-date"
\* new Date(ts) is a valid date
ValidDate(ts) == ts \in {GoodTs}

\* one frame followed by the blank line that ends it
FrameText(lines) == lines \o <<EmptyLine, EmptyLine>>
SuiteFrame(payload) == <<EventLine(SuiteEvent), DataLine(payload)>>

Statuses == {"pending", "running", "passed", "flaky", "failed", "timed_out"}

Chunks ==
    IF scenario = "stream"
    THEN { FrameText(SuiteFrame(Payload(s))) : s \in Statuses }
         \cup { FrameText(SuiteFrame(PayloadTs(s, t))) :
                  s \in {"running", "passed", "failed"}, t \in {GoodTs, BadTs} }
         \cup { FrameText(<<IdLine>> \o SuiteFrame(Payload("flaky"))),
                FrameText(<<DataLine(Payload("failed"))>>),
                FrameText(<<DataLine(Payload("pending"))>>),
                FrameText(<<EventLine("heartbeat"), DataLine(Payload("failed"))>>),
                FrameText(SuiteFrame(<<"{", "}">>)),
                FrameText(SuiteFrame(PayloadNoStatus(GoodTs))),
                FrameText(SuiteFrame(PayloadNoStatus(BadTs))),
                FrameText(SuiteFrame(<<"{", "status">>)),
                FrameText(SuiteFrame(<<"null">>)),
                FrameText(SuiteFrame(<<>>)),
                FrameText(<<EventLine(SuiteEvent)>>),
                SuiteFrame(Payload("running")) \o <<EmptyLine>>
                    \o FrameText(SuiteFrame(Payload("failed"))),
                SuiteFrame(Payload("passed")) \o <<EmptyLine>>
                    \o FrameText(SuiteFrame(Payload("failed"))),
                SuiteFrame(<<"{", "status">>) \o <<EmptyLine>>
                    \o FrameText(SuiteFrame(Payload("failed"))),
                <<EventLine(SuiteEvent)>> }
    ELSE { FrameText(SuiteFrame(Payload("passed"))) }

\* rejections of reader.read()
ReadErrors ==
    IF scenario = "stream"
    THEN { Err("AbortError", <<"This operation was aborted">>),
           Err("TypeError", <<"terminated">>),
           NonError }
    ELSE {}

\* does reader.releaseLock() throw (a reader object without a working releaseLock)
ReleaseThrows == IF scenario = "stream" THEN BOOLEAN ELSE {FALSE}
ReleaseError == Err("TypeError", <<"reader.releaseLock is not a function">>)

\* responses of the event-stream endpoint
SSEResponse(net, status, hasBody) ==
    [net |-> net, status |-> status, hasBody |-> hasBody]
SSEResponses ==
    IF scenario = "stream"
    THEN { SSEResponse(TRUE, 0, FALSE), SSEResponse(FALSE, 500, TRUE),
           SSEResponse(FALSE, 200, FALSE), SSEResponse(FALSE, 200, TRUE) }
    ELSE { SSEResponse(FALSE, 200, TRUE) }

(***************************************************************************)
(* connectToSSE (part_001:83-195).                                         *)
(***************************************************************************)
\* variant: a response without a body is taken as connected
ConnectErrorStatusOnly(r) ==
    IF r.net THEN FetchFailed
    ELSE IF ~Ok(r)
    THEN Err("Error", <<"Failed to connect to SSE endpoint:", ToString(r.status)>>)
    ELSE NoErr

\* lines 90-98: the error that ends the connect step, if any
ConnectError(r) ==
    IF r.net THEN FetchFailed
    ELSE IF ~Ok(r) \/ ~r.hasBody
    THEN Err("Error", <<"Failed to connect to SSE endpoint:", ToString(r.status)>>)
    ELSE NoErr

\* variant: the last piece of the split is kept for the next read
BufferKeepsLast(lines) == Last(lines)

\* line 115: buffer = ''
BufferAfter(lines) == <<>>

\* line 112: buffer.split('\n\n'), as sequences of lines
RECURSIVE SplitFrom(_, _)
SplitFrom(rest, cur) ==
    IF rest = <<>> THEN <<cur>>
    ELSE IF Head(rest) = EmptyLine /\ cur # <<>> /\ Len(rest) > 1
    THEN <<cur>> \o SplitFrom(Tail(rest), <<>>)
    ELSE SplitFrom(Tail(rest), Append(cur, Head(rest)))

SplitFrames(text) == SplitFrom(text, <<>>)

\* line 118: !line.trim()
IsBlank(frame) == \A i \in 1..Len(frame) : frame[i] = EmptyLine

\* lines 121-131: .split('\n').find(startsWith(prefix))?.substring().trim()
FindField(frame, prefix) ==
    LET hits == { i \in 1..Len(frame) : frame[i].field = prefix }
    IN  IF hits = {} THEN [found |-> FALSE, text |-> <<>>]
        ELSE [found |-> TRUE,
              text  |-> frame[CHOOSE i \in hits : \A j \in hits : i <= j].text]

PendingStatuses == {"pending", "running"}
OkStatuses == {"passed", "flaky"}

\* variant: only "running" keeps the stream open
IsRunningOnly(status) == IsStr(status) /\ status.str = "running"

\* variant: only "pending" keeps the stream open
IsPendingOnly(status) == IsStr(status) /\ status.str = "pending"

\* line 161
IsPending(status) == IsStr(status) /\ status.str \in PendingStatuses
\* line 164
IsOk(status) == IsStr(status) /\ status.str \in OkStatuses

\* `${status}` in a template
Render(v) == IF IsStr(v) THEN v.str ELSE "undefined"
\* core.setOutput('status', status)
StatusOutput(status) ==
    Entry("setOutput", "status", IF IsStr(status) THEN <<status.str>> ELSE <<>>, 0)
StatusFailure(status) ==
    SetFailed(<<"Test suite execution failed with status:", Render(status)>>)
\* variant: a payload that cannot be decoded fails the run
ParseWarningAsFailure(eventData) ==
    SetFailed(<<"Failed to parse event data">> \o eventData)

\* line 173
ParseWarning(eventData) == Warning("Failed to parse event data", eventData)

\* variant: only a label that is present and different makes the frame skipped
SkipsLabelWhenOther(eventType) ==
    eventType.found /\ eventType.text # <<SuiteEvent>>

\* line 156: eventType !== 'test_suite_run.event'
SkipsLabel(eventType) ==
    ~(eventType.found /\ eventType.text = <<SuiteEvent>>)

\* lines 118-175: one frame; the calls it makes and whether connectToSSE returns
ProcessFrame(frame) ==
    LET eventData == FindField(frame, "data:")
        eventType == FindField(frame, "event:")
        event     == JSONparse(eventData.text)
        ts        == Get(event.obj, "ts")
        status    == Get(event.obj, "status")
        received  == Entry("info", "Event received", eventData.text, 0)
        summary   == Entry("info", "event summary",
                           <<IF eventType.found THEN eventType.text[1]
                             ELSE "undefined", Render(status)>>, 0)
    IN  IF IsBlank(frame) THEN [calls |-> <<>>, returns |-> FALSE]
        ELSE IF ~(eventData.found /\ eventData.text # <<>>)
        THEN [calls |-> <<>>, returns |-> FALSE]
        ELSE IF event.kind = "throws"
        THEN [calls |-> <<ParseWarning(eventData.text)>>, returns |-> FALSE]
        ELSE IF event.kind = "null"
        THEN [calls |-> <<received, ParseWarning(eventData.text)>>, returns |-> FALSE]
        ELSE IF Truthy(ts) /\ ~ValidDate(ts.str)
        THEN [calls |-> <<received, ParseWarning(eventData.text)>>, returns |-> FALSE]
        ELSE IF SkipsLabel(eventType)
        THEN [calls |-> <<received, summary>>, returns |-> FALSE]
        ELSE IF IsPending(status)
        THEN [calls |-> <<received, summary>>, returns |-> FALSE]
        ELSE IF IsOk(status)
        THEN [calls |-> <<received, summary, StatusOutput(status)>>,
              returns |-> TRUE]
        ELSE [calls |-> <<received, summary, StatusOutput(status),
                          StatusFailure(status)>>,
              returns |-> TRUE]

\* variant: the loop goes on after a frame that returns
RECURSIVE ProcessFramesAll(_)
ProcessFramesAll(frames) ==
    IF frames = <<>> THEN [calls |-> <<>>, returns |-> FALSE]
    ELSE LET one  == ProcessFrame(Head(frames))
             more == ProcessFramesAll(Tail(frames))
         IN  [calls |-> one.calls \o more.calls,
              returns |-> one.returns \/ more.returns]

\* line 117: the loop over the frames of one chunk, left at the first return
RECURSIVE ProcessFrames(_)
ProcessFrames(frames) ==
    IF frames = <<>> THEN [calls |-> <<>>, returns |-> FALSE]
    ELSE LET one == ProcessFrame(Head(frames))
         IN  IF one.returns THEN one
             ELSE LET more == ProcessFrames(Tail(frames))
                  IN  [calls |-> one.calls \o more.calls, returns |-> more.returns]

\* variant: the failure signal carries the bare message
SSECatchBare(error) ==
    IF error.isError THEN SetFailed(error.message)
    ELSE SetFailed(<<"Unknown SSE connection error">>)

\* lines 188-194: the outer catch of connectToSSE
SSECatch(error) ==
    IF error.isError THEN SetFailed(<<"SSE connection error:">> \o error.message)
    ELSE SetFailed(<<"Unknown SSE connection error">>)

\* line 325: connectToSSE has returned to run()
Completed == Info("Test suite execution completed", 0)

\* variant: a cancellation is rethrown like any other error
LeaveStreamRethrowsAll(thrown, releaseThrows) ==
    <<Entry("releaseLock", "", <<>>, 0)>>
    \o (IF releaseThrows
        THEN <<SetFailed(<<"SSE connection error:",
                           "reader.releaseLock is not a function">>)>>
        ELSE <<Entry("abort", "", <<>>, 0)>>
             \o (IF thrown.name # "none"
                 THEN <<IF thrown.isError
                        THEN SetFailed(<<"SSE connection error:">> \o thrown.message)
                        ELSE SetFailed(<<"Unknown SSE connection error">>)>>
                 ELSE <<>>))
    \o <<Info("Test suite execution completed", 0)>>

\* lines 178-194: leaving the read loop; thrown is the error the loop raised,
\* if any, releaseThrows whether reader.releaseLock() throws
LeaveStream(thrown, releaseThrows) ==
    LET caught  == thrown.isError /\ thrown.name = "AbortError"
        pending == thrown # NoErr /\ ~caught
    IN  (IF caught THEN <<Entry("console.debug", "SSE reader aborted", <<>>, 0)>>
         ELSE <<>>)
        \o <<Entry("releaseLock", "", <<>>, 0)>>
        \o (IF releaseThrows THEN <<SSECatch(ReleaseError)>>
            ELSE <<Entry("abort", "", <<>>, 0)>>
                 \o (IF pending THEN <<SSECatch(thrown)>> ELSE <<>>))
        \o <<Completed>>

ReadCall == Entry("read", "", <<>>, 0)

\* variant: a stream that ends before a terminal event is an error
EndOfStreamIsError(releaseThrows) ==
    LeaveStream(Err("Error", <<"Stream", "ended", "without", "status">>),
                releaseThrows)

\* lines 106-107, 184-187: done breaks out of the read loop with nothing
\* thrown and nothing reported
EndOfStream(releaseThrows) == LeaveStream(NoErr, releaseThrows)

(***************************************************************************)
(* Actions.                                                                *)
(***************************************************************************)
Scenarios == {"version", "trigger", "stream"}

Init ==
    /\ scenario \in Scenarios
    /\ pc = "start"
    /\ maxRetriesInput = <<>>
    /\ maxRetries = 0
    /\ attempt = 0
    /\ versionResp = <<>>
    /\ triggerResp = <<>>
    /\ sseResp = <<>>
    /\ reads = 0
    /\ delivered = <<>>
    /\ buffer = <<>>
    /\ ending = ""
    /\ readError = NoErr
    /\ log = <<>>

\* core.getInput('apiKey', { required: true }) throws when the input is empty
ApiKeys == {"", "test-api-key"}
MissingInput == Err("Error", <<"Input required and not supplied:", "apiKey">>)

\* lines 201-234: inputs are read and the first version request is issued
Start ==
    /\ pc = "start"
    /\ \E apiKey \in ApiKeys, input \in MaxRetriesInputs :
         IF apiKey = ""
         THEN /\ log' = log \o <<RunCatch(MissingInput)>>
              /\ pc' = "done"
              /\ UNCHANGED <<maxRetriesInput, maxRetries>>
         ELSE /\ maxRetriesInput' = input
              /\ maxRetries' = parseNumber(input)
              /\ log' = log \o <<Fetch("version")>>
              /\ pc' = "version"
    /\ attempt' = 0
    /\ UNCHANGED <<scenario, versionResp, triggerResp, sseResp, reads, delivered,
                   buffer, ending,
                   readError>>

\* lines 234-254 and 57-73: a version request completes
VersionResponse ==
    /\ pc = "version"
    /\ \E r \in VersionResponses :
         LET res == fetchVersion(r)
         IN  /\ versionResp' = Append(versionResp, r)
             /\ IF res.ok
                THEN /\ log' = log \o <<Info("Using API version", 0),
                                        SetOutput("version", res.value)>>
                                   \o IssueTrigger
                     /\ pc' = "trigger"
                     /\ attempt' = 0
                ELSE IF Rethrows(attempt, VersionRetries, VersionRetryable(res.error))
                THEN /\ log' = log \o <<VersionWarning(res.error)>> \o IssueTrigger
                     /\ pc' = "trigger"
                     /\ attempt' = 0
                ELSE /\ log' = log \o RetryCalls(attempt)
                     /\ pc' = "versionSleep"
                     /\ attempt' = attempt
    /\ UNCHANGED <<scenario, maxRetriesInput, maxRetries, triggerResp, sseResp,
                   reads, delivered, buffer, ending,
                   readError>>

\* lines 71-73, 57-59: the backoff sleep ends, the next version request is issued
VersionWake ==
    /\ pc = "versionSleep"
    /\ attempt' = attempt + 1
    /\ log' = log \o <<Fetch("version")>>
    /\ pc' = "version"
    /\ UNCHANGED <<scenario, maxRetriesInput, maxRetries, versionResp, triggerResp,
                   sseResp, reads, delivered, buffer, ending,
                   readError>>

\* variant: the stream is requested before the run id is reported
OpenStreamBeforeReport(runId) ==
    <<Info("Connecting to SSE endpoint", 0),
      Entry("newAbortController", "", <<>>, 0), Fetch("sse"),
      Info("Run ID", 0), SetOutput("runId", runId)>>

\* lines 314-321 and 87-94: the run id is reported and the stream is requested
OpenStream(runId) ==
    <<Info("Run ID", 0), SetOutput("runId", runId),
      Info("Connecting to SSE endpoint", 0),
      Entry("newAbortController", "", <<>>, 0), Fetch("sse")>>

\* lines 283-315 and 57-73: a trigger request completes
TriggerResponse ==
    /\ pc = "trigger"
    /\ \E r \in TriggerResponses :
         LET res == triggerAction(r)
         IN  /\ triggerResp' = Append(triggerResp, r)
             /\ IF res.ok
                THEN IF RunIdError(res.data).isError
                     THEN /\ log' = log \o <<RunCatch(RunIdError(res.data))>>
                          /\ pc' = "done"
                          /\ attempt' = attempt
                     ELSE /\ log' = log \o OpenStream(Render(Get(res.data.obj, "run_id")))
                          /\ pc' = "sse"
                          /\ attempt' = attempt
                ELSE IF TriggerGivesUp(res.error)
                THEN /\ log' = log \o <<RunCatch(res.error)>>
                     /\ pc' = "done"
                     /\ attempt' = attempt
                ELSE /\ log' = log \o RetryCalls(attempt)
                     /\ pc' = "triggerSleep"
                     /\ attempt' = attempt
    /\ UNCHANGED <<scenario, maxRetriesInput, maxRetries, versionResp, sseResp,
                   reads, delivered, buffer, ending,
                   readError>>

\* lines 71-73, 57-59: the backoff sleep ends, the next trigger request is issued
TriggerWake ==
    /\ pc = "triggerSleep"
    /\ attempt' = attempt + 1
    /\ log' = log \o <<Fetch("trigger")>>
    /\ pc' = "trigger"
    /\ UNCHANGED <<scenario, maxRetriesInput, maxRetries, versionResp, triggerResp,
                   sseResp, reads, delivered, buffer, ending,
                   readError>>

\* lines 90-106: the event-stream request completes
StreamResponse ==
    /\ pc = "sse"
    /\ \E r \in SSEResponses :
         /\ sseResp' = <<r>>
         /\ IF ConnectError(r).isError
            THEN /\ log' = log \o <<SSECatch(ConnectError(r)), Completed>>
                 /\ pc' = "done"
            ELSE /\ log' = log \o <<Entry("getReader", "", <<>>, 0), ReadCall>>
                 /\ pc' = "read"
    /\ UNCHANGED <<scenario, maxRetriesInput, maxRetries, attempt, versionResp,
                   triggerResp, reads, delivered, buffer, ending,
                   readError>>

\* lines 106-177: a read delivers a chunk
ReadChunk ==
    /\ pc = "read"
    /\ reads < MaxReads
    /\ \E chunk \in Chunks, rt \in ReleaseThrows :
         LET lines == SplitFrames(buffer \o chunk)
             res   == ProcessFrames(lines)
         IN  /\ reads' = reads + 1
             /\ delivered' = Append(delivered, chunk)
             /\ buffer' = BufferAfter(lines)
             /\ IF res.returns
                THEN /\ log' = log \o res.calls \o LeaveStream(NoErr, rt)
                     /\ pc' = "done"
                     /\ ending' = "return"
                ELSE /\ log' = log \o res.calls \o <<ReadCall>>
                     /\ pc' = "read"
                     /\ ending' = ending
    /\ UNCHANGED <<scenario, maxRetriesInput, maxRetries, attempt, versionResp,
                   triggerResp, sseResp, readError>>

\* lines 106-107, 184-187: a read reports the end of the stream
ReadDone ==
    /\ pc = "read"
    /\ \E rt \in ReleaseThrows :
         log' = log \o EndOfStream(rt)
    /\ pc' = "done"
    /\ ending' = "eof"
    /\ UNCHANGED <<scenario, maxRetriesInput, maxRetries, attempt, versionResp,
                   triggerResp, sseResp, reads, delivered, buffer, readError>>

\* lines 106, 178-194: a read is rejected
ReadFails ==
    /\ pc = "read"
    /\ \E e \in ReadErrors, rt \in ReleaseThrows :
         /\ log' = log \o LeaveStream(e, rt)
         /\ ending' = IF e.isError /\ e.name = "AbortError" THEN "abort"
                       ELSE "error"
         /\ readError' = e
    /\ pc' = "done"
    /\ UNCHANGED <<scenario, maxRetriesInput, maxRetries, attempt, versionResp,
                   triggerResp, sseResp, reads, delivered, buffer>>

Next ==
    \/ Start
    \/ VersionResponse
    \/ VersionWake
    \/ TriggerResponse
    \/ TriggerWake
    \/ StreamResponse
    \/ ReadChunk
    \/ ReadDone
    \/ ReadFails

Spec == Init /\ [][Next]_vars

(***************************************************************************)
(* Liveness: every awaited HTTP request settles (its promise resolves or   *)
(* rejects) and every backoff timer fires, so the steps of run() that wait *)
(* on them are taken.  Nothing is assumed of the event stream once it is   *)
(* open: it may deliver, end, fail, or stay silent for ever.               *)
(***************************************************************************)
Fairness ==
    /\ WF_vars(Start)
    /\ WF_vars(VersionResponse)
    /\ WF_vars(VersionWake)
    /\ WF_vars(TriggerResponse)
    /\ WF_vars(TriggerWake)
    /\ WF_vars(StreamResponse)

LiveSpec == Spec /\ Fairness

(***************************************************************************)
(* retryWithBackoff (part_001:50-76) on its own: fn is any operation (it   *)
(* resolves with a value or rejects with an error on each invocation) and  *)
(* retryableErrorCheck any predicate (it answers true or false on each     *)
(* call).  The log holds the invocations of fn with their outcomes, the    *)
(* calls of the predicate, the retry logs and sleeps, and how              *)
(* retryWithBackoff itself settles.                                        *)
(***************************************************************************)
\* variant: the loop starts one attempt early
FirstAttemptEarly == 0 - 1

\* line 57: let attempt = 0
FirstAttempt == 0

\* line 57: attempt <= maxRetries
LoopRuns(att, maxR) == att <= maxR

FnValues == {"v1", "v2"}
FnErrors ==
    { FetchFailed,
      TriggerError(Response(500, <<"Unavailable">>, <<>>)),
      TriggerError(Response(401, <<"Unavailable">>, <<>>)),
      NonError }

FnCall(att) == Entry("fn", "", <<>>, att)
Resolved(who, value) == Entry("resolved", who, <<value>>, 0)
Rejected(who, error) == Entry("rejected", who, <<error.name>> \o error.message, 0)
\* line 64: the predicate is called unless this was the last attempt
CheckCall(att, maxR, error, retryable) ==
    IF att = maxR THEN <<>>
    ELSE <<Entry("retryableErrorCheck", IF retryable THEN "true" ELSE "false",
                 <<error.name>> \o error.message, 0)>>

RetryInit ==
    /\ scenario = "retryWithBackoff"
    /\ pc = "fn"
    /\ maxRetriesInput = <<>>
    /\ maxRetries \in 0..MaxRetriesBound
    /\ attempt = FirstAttempt
    /\ versionResp = <<>>
    /\ triggerResp = <<>>
    /\ sseResp = <<>>
    /\ reads = 0
    /\ delivered = <<>>
    /\ buffer = <<>>
    /\ ending = ""
    /\ readError = NoErr
    /\ log = <<FnCall(FirstAttempt)>>

\* line 59: fn resolves and retryWithBackoff returns its value
RetryFnResolves ==
    /\ pc = "fn"
    /\ \E v \in FnValues :
         log' = log \o <<Resolved("fn", v), Resolved("retryWithBackoff", v)>>
    /\ pc' = "returned"
    /\ UNCHANGED <<scenario, maxRetriesInput, maxRetries, attempt, versionResp,
                   triggerResp, sseResp, reads, delivered, buffer, ending,
                   readError>>

\* lines 60-71: fn rejects; the error is rethrown, or the retry is logged and
\* the sleep started
RetryFnRejects ==
    /\ pc = "fn"
    /\ \E e \in FnErrors, retryable \in BOOLEAN :
         IF Rethrows(attempt, maxRetries, retryable)
         THEN /\ log' = log \o <<Rejected("fn", e)>>
                            \o CheckCall(attempt, maxRetries, e, retryable)
                            \o <<Rejected("retryWithBackoff", e)>>
              /\ pc' = "thrown"
         ELSE /\ log' = log \o <<Rejected("fn", e)>>
                            \o CheckCall(attempt, maxRetries, e, retryable)
                            \o RetryCalls(attempt)
              /\ pc' = "sleep"
    /\ UNCHANGED <<scenario, maxRetriesInput, maxRetries, attempt, versionResp,
                   triggerResp, sseResp, reads, delivered, buffer, ending,
                   readError>>

\* lines 71-75, 57: the sleep ends; fn is invoked again while the loop runs,
\* else lastError is thrown
RetryWake ==
    /\ pc = "sleep"
    /\ attempt' = attempt + 1
    /\ IF LoopRuns(attempt + 1, maxRetries)
       THEN /\ log' = log \o <<FnCall(attempt + 1)>>
            /\ pc' = "fn"
       ELSE /\ log' = log \o <<[Last(SelectOp(log, "rejected"))
                                  EXCEPT !.a = "retryWithBackoff"]>>
            /\ pc' = "thrown"
    /\ UNCHANGED <<scenario, maxRetriesInput, maxRetries, versionResp,
                   triggerResp, sseResp, reads, delivered, buffer, ending,
                   readError>>

RetryNext ==
    \/ RetryFnResolves
    \/ RetryFnRejects
    \/ RetryWake

RetrySpec == RetryInit /\ [][RetryNext]_vars

(***************************************************************************)
(* Vocabulary of the properties.                                           *)
(***************************************************************************)
Failures == SelectOp(log, "setFailed")
FetchCount(url) ==
    Cardinality({i \in DOMAIN log : log[i].op = "fetch" /\ log[i].a = url})
CallCount(op) == Cardinality({i \in DOMAIN log : log[i].op = op})
HasOutput(name) == \E i \in DOMAIN log : log[i].op = "setOutput" /\ log[i].a = name
Outputs(name) ==
    {log[i].b : i \in {j \in DOMAIN log : log[j].op = "setOutput" /\ log[j].a = name}}
\* position of the first request of a url, 0 when there is none
FirstFetch(url) ==
    LET hits == {i \in DOMAIN log : log[i].op = "fetch" /\ log[i].a = url}
    IN  IF hits = {} THEN 0 ELSE CHOOSE i \in hits : \A j \in hits : i <= j

Is5xx(r) == ~r.net /\ r.status >= 500 /\ r.status < 600
Is4xx(r) == ~r.net /\ r.status >= 400 /\ r.status < 500
\* a 2xx response whose body decodes and carries a non-empty run_id
TriggerSucceeds(r) ==
    /\ ~r.net
    /\ r.status >= 200 /\ r.status <= 299
    /\ JSONparse(r.json).kind = "object"
    /\ Truthy(Get(JSONparse(r.json).obj, "run_id"))
\* the message of a non-2xx trigger response
TriggerMessage(r) == <<"Failed to trigger action:", ToString(r.status)>> \o r.text
AllResponses(P(_)) == \A i \in DOMAIN triggerResp : P(triggerResp[i])

(***************************************************************************)
(* C1.  With maxRetries = N > 0, a trigger that fails with a 5xx status    *)
(* k <= N times and then succeeds: while only 5xx failures have come and   *)
(* attempts remain the run keeps retrying without a failure signal, and    *)
(* after the success exactly k+1 trigger requests were issued, no failure  *)
(* signal precedes the stream request, runId is reported and the event     *)
(* stream is requested.                                                    *)
(***************************************************************************)
C1_RetryUntilSuccess ==
    /\ ( /\ maxRetries > 0
         /\ triggerResp # <<>>
         /\ Len(triggerResp) <= maxRetries
         /\ AllResponses(Is5xx) )
       => /\ pc \in {"triggerSleep", "trigger"}
          /\ Failures = <<>>
          /\ FetchCount("trigger")
               = Len(triggerResp) + (IF pc = "trigger" THEN 1 ELSE 0)
    /\ ( /\ maxRetries > 0
         /\ triggerResp # <<>>
         /\ Len(triggerResp) - 1 <= maxRetries
         /\ \A i \in 1..(Len(triggerResp) - 1) : Is5xx(triggerResp[i])
         /\ TriggerSucceeds(Last(triggerResp)) )
       => /\ FetchCount("trigger") = Len(triggerResp)
          /\ Outputs("runId") = {<<"r1">>}
          /\ FetchCount("sse") = 1
          /\ \A i \in 1..FirstFetch("sse") : log[i].op # "setFailed"

C1_Witness ==
    /\ maxRetries = 2
    /\ Len(triggerResp) = 3
    /\ Is5xx(triggerResp[1]) /\ Is5xx(triggerResp[2])
    /\ TriggerSucceeds(triggerResp[3])
    /\ pc = "done"

(***************************************************************************)
(* C2.  With maxRetries = N >= 0 and every trigger response a 5xx: never   *)
(* more than N+1 trigger requests; after the (N+1)-th failure the run has  *)
(* ended with exactly one failure signal, whose message is that of the     *)
(* last failed attempt, no runId output and no event-stream request.       *)
(***************************************************************************)
C2_RetriesExhausted ==
    ( /\ pc # "start"
      /\ maxRetries >= 0
      /\ triggerResp # <<>>
      /\ AllResponses(Is5xx) )
    => /\ Len(triggerResp) <= maxRetries + 1
       /\ FetchCount("trigger") <= maxRetries + 1
       /\ Len(triggerResp) = maxRetries + 1
          => /\ pc = "done"
             /\ FetchCount("trigger") = maxRetries + 1
             /\ Failures = <<SetFailed(TriggerMessage(Last(triggerResp)))>>
             /\ ~HasOutput("runId")
             /\ FetchCount("sse") = 0

C2_Witness ==
    /\ maxRetries = 2
    /\ Len(triggerResp) = 3
    /\ AllResponses(Is5xx)
    /\ triggerResp[2] # triggerResp[3]
    /\ pc = "done"

(***************************************************************************)
(* C3.  With maxRetries > 0, a trigger response with a status in [400,500) *)
(* is the last trigger response of the run whatever its body text: the run *)
(* ends there, without sleeping, with a failure signal that starts         *)
(* 'Failed to trigger action: <status>'.                                   *)
(***************************************************************************)
C3_ClientErrorNeverRetried ==
    \A i \in DOMAIN triggerResp :
        (maxRetries > 0 /\ Is4xx(triggerResp[i]))
        => /\ i = Len(triggerResp)
           /\ pc = "done"
           /\ Last(log).op = "setFailed"
           /\ SubSeq(Last(log).b, 1, 2)
                = <<"Failed to trigger action:", ToString(triggerResp[i].status)>>

(***************************************************************************)
(* C4.  When the maxRetries input is missing, non-numeric or "0", the      *)
(* parsed budget is 0 and a failing first trigger response (5xx included)  *)
(* ends the run: one trigger request, no sleep after it, one failure       *)
(* signal.                                                                 *)
(***************************************************************************)
C4_NoRetryByDefault ==
    (pc # "start" /\ maxRetriesInput \in {<<>>, <<"a">>, <<"0">>})
    => /\ maxRetries = 0
       /\ (triggerResp # <<>> /\ ~TriggerSucceeds(triggerResp[1]))
          => /\ Len(triggerResp) = 1
             /\ pc = "done"
             /\ FetchCount("trigger") = 1
             /\ \A i \in FirstFetch("trigger")..Len(log) : log[i].op # "sleep"
             /\ Len(Failures) = 1

C4_Witness ==
    /\ maxRetriesInput = <<"a">>
    /\ Len(triggerResp) = 1
    /\ Is5xx(triggerResp[1])
    /\ pc = "done"

(***************************************************************************)
(* C5.  Every backoff sleep directly follows a failed request, is exactly  *)
(* 1000 * 2^i ms where i is the 0-based index of that failed attempt, and  *)
(* is directly followed by the next request to the same endpoint; two      *)
(* attempts of the same call are never issued without a sleep in between.  *)
(***************************************************************************)
RequestsAndSleeps ==
    LET RECURSIVE Pick(_)
        Pick(l) == IF l = <<>> THEN <<>>
                   ELSE IF Head(l).op \in {"fetch", "sleep"}
                        THEN <<Head(l)>> \o Pick(Tail(l))
                        ELSE Pick(Tail(l))
    IN  Pick(log)

C5_BackoffDelays ==
    LET F == RequestsAndSleeps
    IN  /\ \A j \in DOMAIN F :
            F[j].op = "sleep"
            => /\ j > 1
               /\ F[j - 1].op = "fetch"
               /\ F[j].n = 1000 * 2 ^ (Cardinality({m \in 1..(j - 1) :
                              F[m].op = "fetch" /\ F[m].a = F[j - 1].a}) - 1)
               /\ j < Len(F) => F[j + 1] = F[j - 1]
        /\ \A j \in 1..(Len(F) - 1) :
            (F[j].op = "fetch" /\ F[j + 1].op = "fetch") => F[j].a # F[j + 1].a

C5_Witness ==
    /\ \E i \in DOMAIN log : log[i].op = "sleep" /\ log[i].n = 4000
    /\ pc = "done"

(***************************************************************************)
(* Vocabulary of the stream properties: the frames the stream has          *)
(* delivered, in order, and what each one carries.                         *)
(***************************************************************************)
RECURSIVE AllFrames(_)
AllFrames(chunks) ==
    IF chunks = <<>> THEN <<>>
    ELSE SplitFrames(Head(chunks)) \o AllFrames(Tail(chunks))

\* a frame with a data payload that JSON-decodes to an object
IsEvent(frame) ==
    /\ FindField(frame, "data:").found
    /\ JSONparse(FindField(frame, "data:").text).kind = "object"
Labelled(frame) == FindField(frame, "event:") = [found |-> TRUE, text |-> <<SuiteEvent>>]
StatusOf(frame) == Get(JSONparse(FindField(frame, "data:").text).obj, "status")
HasStatusIn(frame, S) ==
    IsEvent(frame) /\ IsStr(StatusOf(frame)) /\ StatusOf(frame).str \in S
\* a labelled event whose status is not pending/running
Decisive(frame) ==
    IsEvent(frame) /\ Labelled(frame) /\ ~HasStatusIn(frame, {"pending", "running"})
\* a decisive event with a status string and no ts field
CleanDecisive(frame) ==
    /\ Decisive(frame)
    /\ IsStr(StatusOf(frame))
    /\ "ts" \notin DOMAIN JSONparse(FindField(frame, "data:").text).obj
FailuresNaming(status) ==
    {k \in DOMAIN log : log[k].op = "setFailed" /\ Includes(log[k].b, status)}

(***************************************************************************)
(* C6.  For the first labelled event of the stream whose status is not     *)
(* pending/running, when that status is not passed/flaky either: the       *)
(* status output equals that status and exactly one failure signal names   *)
(* the status.                                                             *)
(***************************************************************************)
C6_FailureStatusReported ==
    LET fs == AllFrames(delivered)
    IN  \A i \in DOMAIN fs :
            ( /\ Decisive(fs[i])
              /\ IsStr(StatusOf(fs[i]))
              /\ StatusOf(fs[i]).str \notin {"passed", "flaky"}
              /\ \A j \in 1..(i - 1) : ~Decisive(fs[j]) )
            => /\ Outputs("status") = {<<StatusOf(fs[i]).str>>}
               /\ Cardinality(FailuresNaming(StatusOf(fs[i]).str)) = 1

(***************************************************************************)
(* C7.  For the first labelled event of the stream whose status is not     *)
(* pending/running, when that status is passed or flaky: the status output *)
(* equals that status and the run raises no failure signal.                *)
(***************************************************************************)
C7_OkStatusReported ==
    LET fs == AllFrames(delivered)
    IN  \A i \in DOMAIN fs :
            ( /\ Decisive(fs[i])
              /\ HasStatusIn(fs[i], {"passed", "flaky"})
              /\ \A j \in 1..(i - 1) : ~Decisive(fs[j]) )
            => /\ Outputs("status") = {<<StatusOf(fs[i]).str>>}
               /\ Failures = <<>>

(***************************************************************************)
(* C8.  Events with status pending or running produce no status output     *)
(* and do not end the consumer: while every frame delivered is such an     *)
(* event, no status output exists and, unless the stream has ended or      *)
(* failed, a further read has been issued; and a decisive event that       *)
(* directly follows a pending event (in the same chunk or the next) is     *)
(* still processed and reported.                                           *)
(***************************************************************************)
C8_PendingContinues ==
    LET fs == AllFrames(delivered)
        events == {i \in DOMAIN fs : ~IsBlank(fs[i])}
    IN  /\ ( /\ events # {}
             /\ \A i \in events : HasStatusIn(fs[i], {"pending", "running"}) )
           => /\ ~HasOutput("status")
              /\ ending \in {"", "eof", "abort", "error"}
              /\ ending = ""
                 => /\ pc = "read"
                    /\ Last(log) = ReadCall
                    /\ CallCount("read") = Len(delivered) + 1
        /\ \A i \in DOMAIN fs :
              ( /\ CleanDecisive(fs[i])
                /\ \E p \in 1..(i - 1) :
                     /\ HasStatusIn(fs[p], {"pending", "running"})
                     /\ \A q \in (p + 1)..(i - 1) : IsBlank(fs[q])
                /\ \A j \in 1..(i - 1) : ~Decisive(fs[j]) )
              => Outputs("status") = {<<StatusOf(fs[i]).str>>}

C8_Witness ==
    /\ Len(delivered) = 2
    /\ \A i \in DOMAIN delivered :
         delivered[i] = FrameText(SuiteFrame(Payload("running")))
    /\ pc = "read"

C8_WitnessSameChunk ==
    /\ delivered = << SuiteFrame(Payload("running")) \o <<EmptyLine>>
                        \o FrameText(SuiteFrame(Payload("failed"))) >>
    /\ Outputs("status") = {<<"failed">>}

(***************************************************************************)
(* C9.  At most one failure signal per run; a finished run has exactly one *)
(* when it took a failing path (trigger failure or missing run id, stream  *)
(* connect failure, read error, failure status) and none otherwise.        *)
(***************************************************************************)
FailingPath ==
    \/ ~HasOutput("runId")
    \/ FetchCount("sse") = 1 /\ CallCount("getReader") = 0
    \/ ending = "error"
    \/ \E v \in Outputs("status") : v \notin {<<"passed">>, <<"flaky">>}

C9_OneFailureSignal ==
    /\ Len(Failures) <= 1
    /\ pc = "done" => (Len(Failures) = 1 <=> FailingPath)

(***************************************************************************)
(* C10.  After a failing trigger response (no response, non-2xx, body not  *)
(* decodable, run_id absent or empty) the run is either retrying or has    *)
(* ended; when it has ended, the event stream was never requested, no      *)
(* runId and no status output exists and exactly one failure signal was    *)
(* raised, which starts 'Failed to trigger action: 401' after a 401.       *)
(***************************************************************************)
C10_TriggerFailureAborts ==
    (triggerResp # <<>> /\ ~TriggerSucceeds(Last(triggerResp)))
    => /\ pc \in {"triggerSleep", "trigger", "done"}
       /\ FetchCount("sse") = 0
       /\ ~HasOutput("runId")
       /\ ~HasOutput("status")
       /\ pc = "done"
          => /\ Len(Failures) = 1
             /\ (~Last(triggerResp).net /\ Last(triggerResp).status = 401)
                => SubSeq(Failures[1].b, 1, 2)
                     = <<"Failed to trigger action:", "401">>

C10_Witness ==
    /\ pc = "done"
    /\ triggerResp # <<>>
    /\ ~Last(triggerResp).net
    /\ Last(triggerResp).status = 401

C10_WitnessNoRunId ==
    /\ pc = "done"
    /\ triggerResp # <<>>
    /\ Last(triggerResp) = Response(200, <<>>, <<"{", "}">>)

(***************************************************************************)
(* C11.  When the event-stream request is answered with a non-2xx status   *)
(* or without a streaming body, the run ends there: no reader is acquired, *)
(* nothing is read, no status output is reported, the only failure signal  *)
(* is 'SSE connection error: Failed to connect to SSE endpoint: <status>', *)
(* and the runId output was reported before the stream was requested.      *)
(***************************************************************************)
C11_StreamConnectFailure ==
    ( /\ sseResp # <<>>
      /\ ~sseResp[1].net
      /\ (~(sseResp[1].status \in 200..299) \/ ~sseResp[1].hasBody) )
    => /\ pc = "done"
       /\ CallCount("getReader") = 0
       /\ CallCount("read") = 0
       /\ delivered = <<>>
       /\ ~HasOutput("status")
       /\ Failures = << SetFailed(<<"SSE connection error:",
                                   "Failed to connect to SSE endpoint:",
                                   ToString(sseResp[1].status)>>) >>
       /\ \E i \in 1..(FirstFetch("sse") - 1) :
            log[i].op = "setOutput" /\ log[i].a = "runId"

C11_Witness ==
    /\ sseResp = <<SSEResponse(FALSE, 500, TRUE)>>
    /\ pc = "done"

C11_WitnessNoBody ==
    /\ sseResp = <<SSEResponse(FALSE, 200, FALSE)>>
    /\ pc = "done"

(***************************************************************************)
(* C12.  Whatever the version endpoint answers (success, non-2xx, no       *)
(* response, undecodable body, four failures in a row), no failure signal  *)
(* is raised while the probe runs, the probe is followed by the trigger    *)
(* request with no failure signal before it, and the version output exists *)
(* exactly when the last probe response was a success.                     *)
(***************************************************************************)
\* a 2xx version response whose body decodes
VersionSucceeds(r) ==
    ~r.net /\ r.status \in 200..299 /\ JSONparse(r.json).kind # "throws"

C12_VersionProbeNotFatal ==
    /\ pc \in {"version", "versionSleep"}
       => Failures = <<>> /\ ~HasOutput("version")
    /\ (versionResp # <<>> /\ pc \notin {"version", "versionSleep"})
       => /\ FetchCount("trigger") >= 1
          /\ \A i \in 1..FirstFetch("trigger") : log[i].op # "setFailed"
          /\ HasOutput("version") <=> VersionSucceeds(Last(versionResp))

C12_Witness ==
    /\ Len(versionResp) = 4
    /\ versionResp[1].net
    /\ versionResp[2].status = 500
    /\ versionResp[3] = Response(200, <<>>, <<"<html>">>)
    /\ ~VersionSucceeds(versionResp[4])
    /\ FetchCount("trigger") = 1
    /\ pc = "done"

C12_WitnessSuccess ==
    /\ Len(versionResp) = 2
    /\ VersionSucceeds(versionResp[2])
    /\ Outputs("version") = {<<"unknown">>}
    /\ FetchCount("trigger") = 1

(***************************************************************************)
(* C13.  A 2xx trigger response whose decoded body carries no run_id or an *)
(* empty one is the last trigger response of the run whatever maxRetries   *)
(* is: no sleep and no trigger request follow it, the only failure signal  *)
(* is 'No run ID received from the trigger endpoint', and neither a runId  *)
(* output nor an event-stream request exists.                              *)
(***************************************************************************)
\* a 2xx response whose body decodes to a value without a non-empty run_id
RunIdMissing(r) ==
    /\ ~r.net
    /\ r.status \in 200..299
    /\ JSONparse(r.json).kind # "throws"
    /\ ~TriggerSucceeds(r)

C13_MissingRunIdNotRetried ==
    \A i \in DOMAIN triggerResp :
        RunIdMissing(triggerResp[i])
        => /\ i = Len(triggerResp)
           /\ pc = "done"
           /\ FetchCount("trigger") = i
           /\ Last(log).op = "setFailed"
           /\ Failures = << SetFailed(<<"No run ID received from the trigger endpoint">>) >>
           /\ ~HasOutput("runId")
           /\ FetchCount("sse") = 0

(***************************************************************************)
(* C14.  Once the abort controller of the consumer has been created, a     *)
(* finished run has aborted it, whichever way the consumer was left:       *)
(* connect failure (non-2xx, missing body, request error), end of stream,  *)
(* terminal event, read error or cancellation.                             *)
(***************************************************************************)
C14_AbortOnEveryExit ==
    (pc = "done" /\ CallCount("newAbortController") = 1)
    => CallCount("abort") >= 1

(***************************************************************************)
(* C15.  Once the reader has been acquired, a finished run has released    *)
(* the reader exactly once and aborted the controller exactly once,        *)
(* whichever way the read loop was left (end of stream, terminal event,    *)
(* read error, cancellation) and also when releasing the reader throws.    *)
(***************************************************************************)
C15_ReleasedAndAbortedOnce ==
    /\ CallCount("releaseLock") <= 1
    /\ CallCount("abort") <= 1
    /\ (pc = "done" /\ CallCount("getReader") = 1)
       => /\ ending \in {"eof", "return", "error", "abort"}
          /\ CallCount("releaseLock") = 1
          /\ CallCount("abort") = 1

(***************************************************************************)
(* C16.  With maxRetries > 0, a trigger request that got no response while *)
(* attempts remain is directly followed by the retry log and the backoff   *)
(* sleep, and once that sleep is over by the next trigger request.         *)
(***************************************************************************)
\* position in the log of the n-th request of a url
NthFetch(url, n) ==
    CHOOSE p \in DOMAIN log :
        /\ log[p] = Fetch(url)
        /\ Cardinality({q \in 1..p : log[q] = Fetch(url)}) = n

C16_NetworkFailureRetried ==
    \A i \in DOMAIN triggerResp :
        (maxRetries > 0 /\ triggerResp[i].net /\ i <= maxRetries)
        => LET p == NthFetch("trigger", i)
           IN  /\ FetchCount("trigger") >= i
               /\ Len(log) >= p + 2
               /\ log[p + 1].op = "info" /\ log[p + 1].a = "retrying"
               /\ log[p + 2].op = "sleep"
               /\ \/ /\ pc = "triggerSleep"
                     /\ i = Len(triggerResp)
                     /\ Len(log) = p + 2
                  \/ /\ Len(log) >= p + 3
                     /\ log[p + 3] = Fetch("trigger")

C16_Witness ==
    /\ maxRetries = 2
    /\ Len(triggerResp) = 3
    /\ triggerResp[1].net
    /\ triggerResp[2].net
    /\ FetchCount("trigger") = 3

(***************************************************************************)
(* C17.  Every value given to the status output is one of the statuses     *)
(* that action.yml documents for it: passed, failed, error, running,       *)
(* skipped.                                                                *)
(***************************************************************************)
DocumentedStatuses == {"passed", "failed", "error", "running", "skipped"}

C17_StatusDocumented ==
    \A v \in Outputs("status") : \E d \in DocumentedStatuses : v = <<d>>

(***************************************************************************)
(* Vocabulary of the retryWithBackoff properties.                          *)
(***************************************************************************)
\* the outcomes of the invocations of fn, in order
FnOutcomes ==
    LET RECURSIVE Pick(_)
        Pick(l) == IF l = <<>> THEN <<>>
                   ELSE IF Head(l).op \in {"resolved", "rejected"} /\ Head(l).a = "fn"
                        THEN <<Head(l)>> \o Pick(Tail(l))
                        ELSE Pick(Tail(l))
    IN  Pick(log)
\* how retryWithBackoff itself has settled
Settled ==
    LET RECURSIVE Pick(_)
        Pick(l) == IF l = <<>> THEN <<>>
                   ELSE IF Head(l).a = "retryWithBackoff"
                        THEN <<Head(l)>> \o Pick(Tail(l))
                        ELSE Pick(Tail(l))
    IN  Pick(log)
\* the outcome of fn as the outcome of retryWithBackoff
Propagated(outcome) == [outcome EXCEPT !.a = "retryWithBackoff"]

(***************************************************************************)
(* C18.  retryWithBackoff with maxRetries = N >= 0 invokes fn at most N+1  *)
(* times; nothing is invoked after the first invocation that resolves and  *)
(* retryWithBackoff resolves with that value; after N+1 rejections it has  *)
(* rejected, and whenever it rejects it does so with the error of the last *)
(* invocation, never resolving as well.                                    *)
(***************************************************************************)
C18_RetrierBounded ==
    LET outs == FnOutcomes
    IN  /\ CallCount("fn") <= maxRetries + 1
        /\ CallCount("fn") = Len(outs) + (IF pc = "fn" THEN 1 ELSE 0)
        /\ \A i \in 1..(Len(outs) - 1) : outs[i].op = "rejected"
        /\ Len(Settled) <= 1
        /\ (outs # <<>> /\ Last(outs).op = "resolved")
           => /\ pc = "returned"
              /\ Settled = <<Propagated(Last(outs))>>
              /\ Last(log) = Propagated(Last(outs))
        /\ (Len(outs) = maxRetries + 1 /\ Last(outs).op = "rejected")
           => /\ pc = "thrown"
              /\ Settled = <<Propagated(Last(outs))>>
        /\ pc = "thrown"
           => /\ Last(outs).op = "rejected"
              /\ Settled = <<Propagated(Last(outs))>>
        /\ pc = "returned" => Last(outs).op = "resolved"

C18_Witness ==
    /\ maxRetries = 2
    /\ Len(FnOutcomes) = 3
    /\ \A i \in 1..3 : FnOutcomes[i].op = "rejected"
    /\ FnOutcomes[2] # FnOutcomes[3]
    /\ pc = "thrown"

C18_WitnessSuccess ==
    /\ maxRetries = 2
    /\ Len(FnOutcomes) = 3
    /\ FnOutcomes[3] = Resolved("fn", "v2")
    /\ pc = "returned"

(***************************************************************************)
(* C19.  In retryWithBackoff, when an invocation of fn rejects and either  *)
(* it was the last allowed attempt or the predicate answers false for that *)
(* error, retryWithBackoff rejects with that same error at once: no retry  *)
(* log, no sleep and no further invocation follow.                         *)
(***************************************************************************)
C19_RethrowImmediately ==
    \A p \in DOMAIN log :
        (log[p].op = "rejected" /\ log[p].a = "fn")
        => LET last    == log[p - 1] = FnCall(maxRetries)
               refused == /\ p < Len(log)
                          /\ log[p + 1].op = "retryableErrorCheck"
                          /\ log[p + 1].a = "false"
                          /\ log[p + 1].b = log[p].b
               q       == IF last THEN p + 1 ELSE p + 2
           IN  (last \/ refused)
               => /\ pc = "thrown"
                  /\ Len(log) = q
                  /\ log[q] = Propagated(log[p])
                  /\ \A j \in (p + 1)..Len(log) :
                       log[j].op \notin {"info", "sleep", "fn"}

C19_Witness ==
    /\ maxRetries = 2
    /\ Len(FnOutcomes) = 2
    /\ \E i \in DOMAIN log :
         log[i].op = "retryableErrorCheck" /\ log[i].a = "false"
    /\ pc = "thrown"

C19_WitnessLastAttempt ==
    /\ maxRetries = 2
    /\ Len(FnOutcomes) = 3
    /\ Last(FnOutcomes).op = "rejected"
    /\ pc = "thrown"
    /\ CallCount("retryableErrorCheck") = 2

(***************************************************************************)
(* C20.  A run issues at most 4 version requests; a failed probe response  *)
(* of any kind (no response, non-2xx status, undecodable body) that is not *)
(* the fourth is followed by the backoff and another version request; no   *)
(* version request follows a successful response or the fourth response.   *)
(***************************************************************************)
C20_VersionProbeBounded ==
    LET probing == pc \in {"version", "versionSleep"}
    IN  /\ FetchCount("version") <= 4
        /\ FetchCount("version")
             = Len(versionResp) + (IF pc = "version" THEN 1 ELSE 0)
        /\ \A i \in 1..(Len(versionResp) - 1) : ~VersionSucceeds(versionResp[i])
        /\ (versionResp # <<>> /\ ~VersionSucceeds(Last(versionResp))
                               /\ Len(versionResp) < 4)
           => /\ probing
              /\ pc = "versionSleep" => Last(log).op = "sleep"
        /\ (versionResp # <<>> /\ VersionSucceeds(Last(versionResp))) => ~probing
        /\ Len(versionResp) = 4 => ~probing

C20_Witness ==
    /\ Len(versionResp) = 4
    /\ versionResp[1].status = 500
    /\ versionResp[2].net
    /\ versionResp[3] = Response(200, <<>>, <<"<html>">>)
    /\ VersionSucceeds(versionResp[4])
    /\ FetchCount("version") = 4
    /\ pc = "done"

(***************************************************************************)
(* C21.  The steps of a run follow one another: a trigger request is       *)
(* issued only when the version probe has finished (a successful response  *)
(* or four failed ones) and no version request follows it; the stream      *)
(* request is issued only after a successful trigger response and after    *)
(* the runId output, with no trigger request after it; a status output     *)
(* only comes after the runId output and the stream request.               *)
(***************************************************************************)
\* positions in the log of the calls of one kind and name
Positions(op, a) == {i \in DOMAIN log : log[i].op = op /\ log[i].a = a}
\* every position of P comes before every position of Q
Before(P, Q) == \A i \in P, j \in Q : i < j

C21_StepsSequential ==
    /\ Positions("fetch", "trigger") # {}
       => /\ versionResp # <<>>
          /\ VersionSucceeds(Last(versionResp)) \/ Len(versionResp) = 4
          /\ pc \notin {"version", "versionSleep"}
          /\ Before(Positions("fetch", "version"), Positions("fetch", "trigger"))
          /\ \A i \in 1..(Len(versionResp) - 1) : ~VersionSucceeds(versionResp[i])
    /\ Positions("fetch", "sse") # {}
       => /\ triggerResp # <<>>
          /\ TriggerSucceeds(Last(triggerResp))
          /\ pc \notin {"trigger", "triggerSleep"}
          /\ Cardinality(Positions("setOutput", "runId")) = 1
          /\ Before(Positions("fetch", "trigger"), Positions("setOutput", "runId"))
          /\ Before(Positions("setOutput", "runId"), Positions("fetch", "sse"))
    /\ Positions("setOutput", "status") # {}
       => /\ Positions("setOutput", "runId") # {}
          /\ Before(Positions("setOutput", "runId"), Positions("setOutput", "status"))
          /\ Before(Positions("fetch", "sse"), Positions("setOutput", "status"))

C21_Witness ==
    /\ Len(versionResp) = 4
    /\ ~VersionSucceeds(Last(versionResp))
    /\ HasOutput("runId")
    /\ HasOutput("status")
    /\ pc = "done"

C21_WitnessTriggerRetried ==
    /\ Len(triggerResp) = 3
    /\ HasOutput("status")
    /\ pc = "done"

(***************************************************************************)
(* C22.  Once the consumer has reported a status (it has acted on a        *)
(* terminal event) nothing of the stream is processed any more: the log    *)
(* holds no event log, parse warning, read or further status output after  *)
(* it, the read loop was left by that return, and every chunk delivered    *)
(* was delivered before it.  The status output is reported at most once.   *)
(***************************************************************************)
C22_NothingAfterTerminal ==
    /\ Cardinality(Positions("setOutput", "status")) <= 1
    /\ \A p \in Positions("setOutput", "status") :
          /\ ending = "return"
          /\ pc = "done"
          /\ CallCount("read") = Len(delivered)
          /\ \A j \in (p + 1)..Len(log) :
                /\ log[j].op \notin {"read", "warning", "setOutput", "fetch"}
                /\ log[j].op = "info" => log[j] = Completed

C22_Witness ==
    /\ delivered = << SuiteFrame(Payload("passed")) \o <<EmptyLine>>
                        \o FrameText(SuiteFrame(Payload("failed"))) >>
    /\ Outputs("status") = {<<"passed">>}
    /\ pc = "done"

(***************************************************************************)
(* C23.  Frames are handled in arrival order: the events logged are, in    *)
(* order, the decodable payloads of an initial part of the stream, and at  *)
(* most one read is outstanding; and the status reported is that of the    *)
(* first frame of the stream that is labelled test_suite_run.event,        *)
(* decodes and carries a status other than pending/running.                *)
(***************************************************************************)
\* the payloads of the frames that carry a decodable payload, in stream order
RECURSIVE DecodablePayloads(_)
DecodablePayloads(frames) ==
    IF frames = <<>> THEN <<>>
    ELSE LET d == FindField(Head(frames), "data:")
         IN  (IF d.found /\ d.text # <<>> /\ JSONparse(d.text).kind # "throws"
              THEN <<d.text>> ELSE <<>>)
             \o DecodablePayloads(Tail(frames))
\* the payloads of the events the consumer has logged, in log order
RECURSIVE ReceivedPayloads(_)
ReceivedPayloads(l) ==
    IF l = <<>> THEN <<>>
    ELSE (IF Head(l).op = "info" /\ Head(l).a = "Event received"
          THEN <<Head(l).b>> ELSE <<>>)
         \o ReceivedPayloads(Tail(l))
IsPrefix(s, t) == Len(s) <= Len(t) /\ s = SubSeq(t, 1, Len(s))
\* labelled, decodable, with a status string that is not pending/running
Terminal(frame) == Decisive(frame) /\ IsStr(StatusOf(frame))

C23_FirstTerminalReported ==
    LET fs == AllFrames(delivered)
    IN  /\ IsPrefix(ReceivedPayloads(log), DecodablePayloads(fs))
        /\ CallCount("read") <= Len(delivered) + 1
        /\ \A i \in DOMAIN fs :
              (Terminal(fs[i]) /\ \A j \in 1..(i - 1) : ~Terminal(fs[j]))
              => Outputs("status") = {<<StatusOf(fs[i]).str>>}

(***************************************************************************)
(* C24.  A frame whose payload does not JSON-decode only produces a        *)
(* warning that carries the payload: while every frame delivered is such a *)
(* frame and the stream has not ended or failed, there is one warning per  *)
(* frame, no failure signal, no status output, and the next read has been  *)
(* issued; a terminal frame that comes right after such frames (in the     *)
(* same chunk or the next) is still processed and reported.                *)
(***************************************************************************)
\* a frame with a payload that JSON.parse rejects
Undecodable(frame) ==
    /\ FindField(frame, "data:").found
    /\ FindField(frame, "data:").text # <<>>
    /\ JSONparse(FindField(frame, "data:").text).kind = "throws"

C24_DecodeFailureOnlyWarns ==
    LET fs    == AllFrames(delivered)
        named == {i \in DOMAIN fs : ~IsBlank(fs[i])}
    IN  /\ (named # {} /\ \A i \in named : Undecodable(fs[i]))
           => /\ ~HasOutput("status")
              /\ ending \in {"", "eof", "abort", "error"}
              /\ CallCount("warning")
                   = Cardinality(named)
                     + Cardinality({k \in DOMAIN log :
                                      log[k].op = "warning"
                                      /\ log[k].a # "Failed to parse event data"})
              /\ \A i \in named :
                    \E k \in DOMAIN log :
                        log[k] = Warning("Failed to parse event data",
                                         FindField(fs[i], "data:").text)
              /\ ending = ""
                 => /\ Failures = <<>>
                    /\ pc = "read"
                    /\ Last(log) = ReadCall
        /\ \A i \in DOMAIN fs :
              ( /\ CleanDecisive(fs[i])
                /\ i > 1
                /\ \A j \in 1..(i - 1) : Undecodable(fs[j]) \/ IsBlank(fs[j])
                /\ \E j \in 1..(i - 1) : Undecodable(fs[j]) )
              => Outputs("status") = {<<StatusOf(fs[i]).str>>}

C24_Witness ==
    /\ delivered = << SuiteFrame(<<"{", "status">>) \o <<EmptyLine>>
                        \o FrameText(SuiteFrame(Payload("failed"))) >>
    /\ Outputs("status") = {<<"failed">>}
    /\ CallCount("warning") = 1

C24_WitnessNextChunk ==
    /\ Len(delivered) = 2
    /\ delivered[1] = FrameText(SuiteFrame(<<"{", "status">>))
    /\ delivered[2] = FrameText(SuiteFrame(Payload("passed")))
    /\ Outputs("status") = {<<"passed">>}

(***************************************************************************)
(* C25 (as stated).  A frame with a decodable payload and no event label   *)
(* has its status inspected: when the first such frame of the stream       *)
(* carries a status other than pending/running, and no labelled terminal   *)
(* frame precedes it, that status is reported and the stream is left.      *)
(***************************************************************************)
\* a decodable event without an event: line
Unlabelled(frame) == IsEvent(frame) /\ ~FindField(frame, "event:").found

C25_UnlabelledInspected ==
    LET fs == AllFrames(delivered)
    IN  \A i \in DOMAIN fs :
            ( /\ Unlabelled(fs[i])
              /\ IsStr(StatusOf(fs[i]))
              /\ StatusOf(fs[i]).str \notin {"pending", "running"}
              /\ \A j \in 1..(i - 1) : ~Decisive(fs[j]) )
            => /\ Outputs("status") = {<<StatusOf(fs[i]).str>>}
               /\ ending = "return"

(***************************************************************************)
(* C25 (amended).  A frame with a decodable payload has its status         *)
(* inspected only when its event label is exactly test_suite_run.event: a  *)
(* frame with another label or with no label at all is logged and skipped. *)
(* While every frame delivered is such a frame, whatever status it         *)
(* carries, no status output is reported, each frame was logged, and       *)
(* unless the stream has ended or failed no failure signal was raised and  *)
(* the next read has been issued.                                          *)
(***************************************************************************)
C25_OnlyLabelledInspected ==
    LET fs    == AllFrames(delivered)
        named == {i \in DOMAIN fs : ~IsBlank(fs[i])}
    IN  (named # {} /\ \A i \in named : IsEvent(fs[i]) /\ ~Labelled(fs[i]))
        => /\ ~HasOutput("status")
           /\ ending \in {"", "eof", "abort", "error"}
           /\ Len(ReceivedPayloads(log)) = Cardinality(named)
           /\ ending = ""
              => /\ Failures = <<>>
                 /\ pc = "read"
                 /\ Last(log) = ReadCall

C25_Witness ==
    /\ delivered = << FrameText(<<DataLine(Payload("failed"))>>),
                      FrameText(<<EventLine("heartbeat"),
                                  DataLine(Payload("failed"))>>) >>
    /\ pc = "read"

(***************************************************************************)
(* C26.  The accumulation buffer is empty whenever a read is outstanding   *)
(* (and at every other moment between two steps): nothing of a chunk is    *)
(* carried to the next read.  Each chunk is split into frames on its own,  *)
(* so a status is only ever reported when some chunk, split on its own,    *)
(* holds a labelled decodable frame with a status other than               *)
(* pending/running; a frame that arrives in two reads (its event: line in  *)
(* one, its data: line in the next) is handled as two frames and is not    *)
(* reported.                                                               *)
(***************************************************************************)
C26_BufferEmptyEachRead ==
    /\ buffer = <<>>
    /\ HasOutput("status")
       => \E i \in DOMAIN AllFrames(delivered) : Decisive(AllFrames(delivered)[i])
    /\ ( /\ Len(delivered) >= 2
         /\ delivered[Len(delivered) - 1] = <<EventLine(SuiteEvent)>>
         /\ Last(delivered) = FrameText(<<DataLine(Payload("failed"))>>) )
       => /\ ~HasOutput("status")
          /\ ending # "return"
          /\ ending = "" => pc = "read" /\ Last(log) = ReadCall

C26_Witness ==
    /\ delivered = << <<EventLine(SuiteEvent)>>,
                      FrameText(<<DataLine(Payload("failed"))>>) >>
    /\ ~HasOutput("status")
    /\ pc = "read"

(***************************************************************************)
(* Vocabulary of the read-failure properties.                              *)
(***************************************************************************)
\* the failure signal raised when releasing the reader throws
ReleaseFailure ==
    SetFailed(<<"SSE connection error:", "reader.releaseLock is not a function">>)
ReleaseThrew == \E i \in DOMAIN log : log[i] = ReleaseFailure

Decision(frame) ==
    LET res == ProcessFrame(frame)
    IN  [returns |-> res.returns,
         signals |-> SelectOp(res.calls, "setOutput")
                     \o SelectOp(res.calls, "setFailed")]

C29_DecisionByStatusOnly ==
    LET fs == AllFrames(delivered)
    IN  \A i \in DOMAIN fs :
            (IsEvent(fs[i]) /\ Labelled(fs[i]) /\ IsStr(StatusOf(fs[i])))
            => Decision(fs[i]) = Decision(SuiteFrame(Payload(StatusOf(fs[i]).str)))

(***************************************************************************)
(* C30.  The consumer has no deadline of its own.  With every HTTP request *)
(* settling and every timer firing, a run always gets either to its end or *)
(* to waiting on a read of the open stream, and from then on it either has *)
(* ended or waits on the stream for ever.  Once the reader is acquired the *)
(* run has ended exactly when the read loop was left, and the loop is left *)
(* only by a frame the consumer acts on as terminal, by the end of the     *)
(* stream or by a rejected read: while it has not been left a read is      *)
(* outstanding, and pending/running events alone never make it leave.      *)
(***************************************************************************)
StreamOpen == CallCount("getReader") = 1

C30_ConsumerState ==
    LET fs    == AllFrames(delivered)
        named == {i \in DOMAIN fs : ~IsBlank(fs[i])}
    IN  StreamOpen
        => /\ pc = "done" <=> ending # ""
           /\ ending = "" => (pc = "read" /\ Last(log) = ReadCall)
           /\ ending = "return" => \E i \in DOMAIN fs : Decisive(fs[i])
           /\ ending = "error" => readError # NoErr
           /\ (\A i \in named : HasStatusIn(fs[i], {"pending", "running"}))
              => ending \in {"", "eof", "abort", "error"}
           /\ (\E i \in DOMAIN fs : CleanDecisive(fs[i])) => ending = "return"

C32_AbsentStatusIsFailure ==
    LET fs == AllFrames(delivered)
    IN  \A i \in DOMAIN fs :
            ( /\ Decisive(fs[i])
              /\ ~IsStr(StatusOf(fs[i]))
              /\ \A j \in 1..(i - 1) : ~Decisive(fs[j]) )
            => /\ Outputs("status") = {<<>>}
               /\ Cardinality(Positions("setOutput", "status")) = 1
               /\ Cardinality(FailuresNaming("undefined")) = 1
               /\ ending = "return"
               /\ CallCount("read") = Len(delivered)
====
